---------------------------- MODULE Spec2Model ----------------------------
(***************************************************************************)
(* Wildfire compound-risk demo: the CSV loader, the daily metric           *)
(* aggregation (EFW, CFL, NRD), the compound-strain streaks, the risk      *)
(* multiplier and the risk-state classifier.                               *)
(*                                                                         *)
(* Four specifications share the operators below.                          *)
(*   Spec          main.run: rows are written to the input file, the       *)
(*                 loader sorts them and fills the missing hours, the core *)
(*                 computes the daily table, the classifier labels it.     *)
(*   SpecDaily     the steps after the alignment of the two daily frames,  *)
(*                 on aligned frames given date by date.                   *)
(*   SpecClassify  assign_risk_states on single rows around its            *)
(*                 thresholds.                                             *)
(*   SpecRaw       the core called on hourly frames that did not pass      *)
(*                 through the loader.                                     *)
(*                                                                         *)
(* Numbers.  The program computes in floating point.  Here every quantity  *)
(* derived from EFW is kept as an integer number of TENTHS (EFW10 =        *)
(* 10*EFW, daily_CFL in tenths, thresholds 40.0/60.0/120.0 as 400/600/     *)
(* 1200); the weather values are chosen so that tenths are exact, and the  *)
(* rounding error of the floating-point sums is not modelled.              *)
(* risk_multiplier is kept in 600ths.  Timestamps are whole hours since    *)
(* an epoch midnight: date = ts \div 24, hour of day = ts % 24.            *)
(* A pandas NaN is the value NaN below, which no computed number equals.   *)
(***************************************************************************)
EXTENDS Integers, Sequences, FiniteSets, TLC

VARIABLES
    hourly,   \* the frame of hourly rows: the file's rows as written, then
              \* (after Load) the frame the loader hands to the core
    runs,     \* number of runs of rows written to the file so far
    efw,      \* the hourly EFW series returned by the core
    cfl,      \* the frame returned by compute_daily_cfl
    nrd,      \* the frame returned by compute_daily_nrd
    base,     \* the aligned daily frame (metrics.py line 132)
    daily,    \* the daily frame with all computed columns
    pc        \* position in main.run / in the caller

vars == <<hourly, runs, efw, cfl, nrd, base, daily, pc>>

----------------------------------------------------------------------------
(* Bounds of the model *)

MaxRuns == 2          \* runs of consecutive rows written to the input file
MaxDays == 5          \* rows of a daily frame built directly
MaxRaw  == 3          \* rows of an hourly frame handed over unvalidated

(* Program constants (tenths where derived from EFW) *)

baseline_fire       == 200     \* 20.0
baseline_night_rh   == 60
baseline_night_wind == 5
HighFireThreshold   == 400     \* daily_CFL > 40.0
PoorNightThreshold  == 4       \* daily_NRD > 4
HoursPerDay         == 24
NightStartHour      == 20
NightEndHour        == 8

NaN == -999999

IsNaN(x) == x = NaN

----------------------------------------------------------------------------
(* Generic helpers *)

Max2(a, b) == IF a >= b THEN a ELSE b

SetMin(S) == CHOOSE x \in S : \A y \in S : x <= y
SetMax(S) == CHOOSE x \in S : \A y \in S : x >= y

\* a sequence given as a function, as an explicit tuple (evaluated once)
Tuple(f) == SubSeq(f, 1, Len(f))

\* ascending sequence of a finite set of integers (an index after sort_index)
SortedSeq(S) ==
    Tuple([k \in 1..Cardinality(S) |->
             CHOOSE x \in S : Cardinality({y \in S : y < x}) = k - 1])

\* sum of f[i] over i in 1..Len(f), skipping NaN (pandas skipna=True)
RECURSIVE NanSum(_, _)
NanSum(f, n) ==
    IF n = 0 THEN 0
    ELSE (IF IsNaN(f[n]) THEN 0 ELSE f[n]) + NanSum(f, n - 1)

DateOf(ts) == ts \div HoursPerDay
HourOf(ts) == ts % HoursPerDay

----------------------------------------------------------------------------
(* data_loader.py *)

\* a row of all-NaN columns, as asfreq("H") inserts for a missing hour
NaNRow(t) == [ts |-> t, temp_c |-> NaN, rh |-> NaN, wind_speed_ms |-> NaN]

\* df.sort_values("timestamp"): the rows in ascending timestamp order (rows
\* of equal timestamp in their order of appearance)
sort_values(rows) ==
    LET n   == Len(rows)
        pos == Tuple([i \in 1..n |->
                   1 + Cardinality({j \in 1..n : rows[j].ts < rows[i].ts})
                     + Cardinality({j \in 1..(i - 1) : rows[j].ts = rows[i].ts})])
    IN  Tuple([k \in 1..n |-> rows[CHOOSE i \in 1..n : pos[i] = k]])

\* df.asfreq("H"): one row per hour from the first to the last timestamp
\* of the sorted frame, the hours absent from it filled with NaN (no
\* forward fill)
asfreq(rows) ==
    IF Len(rows) = 0 THEN <<>>
    ELSE LET t0 == rows[1].ts
             t1 == rows[Len(rows)].ts
             at(t) == {i \in 1..Len(rows) : rows[i].ts = t}
         IN  Tuple([k \in 1..(t1 - t0 + 1) |->
                      LET t == t0 + k - 1
                      IN  IF at(t) = {} THEN NaNRow(t)
                          ELSE rows[CHOOSE i \in at(t) : TRUE]])

\* the sanity bounds of the loader (rh in [0,100], wind >= 0)
BoundsOK(rows) ==
    \A i \in 1..Len(rows) :
        /\ rows[i].rh >= 0 /\ rows[i].rh <= 100
        /\ rows[i].wind_speed_ms >= 0

load_hourly_csv(rows) == asfreq(sort_values(rows))

----------------------------------------------------------------------------
(* metrics.py: hourly index and daily aggregation *)

\* EFW = temp_c + 0.5 * wind_speed_ms - 0.2 * rh, in tenths; NaN propagates
compute_hourly_efw(h) ==
    [i \in 1..Len(h) |->
        IF IsNaN(h[i].temp_c) \/ IsNaN(h[i].wind_speed_ms) \/ IsNaN(h[i].rh)
        THEN NaN
        ELSE 10 * h[i].temp_c + 5 * h[i].wind_speed_ms - 2 * h[i].rh]

\* np.maximum(efw - baseline_fire, 0.0); NaN propagates
cfl_hour(e) ==
    [i \in 1..Len(e) |->
        IF IsNaN(e[i]) THEN NaN ELSE Max2(e[i] - baseline_fire, 0)]

\* variant: the bins taken from the first to the last row as they stand, as
\* if the index were already ascending
ResampleDatesInOrder(h) ==
    IF Len(h) = 0 THEN <<>>
    ELSE LET d0 == DateOf(h[1].ts)
             d1 == DateOf(h[Len(h)].ts)
         IN  Tuple([k \in 1..(d1 - d0 + 1) |-> d0 + k - 1])

\* the daily bins of resample("D"): every calendar date from the earliest to
\* the latest timestamp of the index (resample orders the index itself)
ResampleDates(h) ==
    IF Len(h) = 0 THEN <<>>
    ELSE LET ds == {DateOf(h[i].ts) : i \in 1..Len(h)}
             d0 == SetMin(ds)
             d1 == SetMax(ds)
         IN  Tuple([k \in 1..(d1 - d0 + 1) |-> d0 + k - 1])

\* sum of the elements of a sequence of numbers
RECURSIVE Sum(_)
Sum(q) == IF q = <<>> THEN 0 ELSE Head(q) + Sum(Tail(q))

\* .sum(min_count=1) of the bin of date d: the sum of the non-NaN values of
\* the rows of that calendar date, NaN when there is none
BinSum(h, vals, d) ==
    LET idx == SelectSeq(Tuple([i \in 1..Len(h) |-> i]),
                         LAMBDA i : DateOf(h[i].ts) = d /\ ~IsNaN(vals[i]))
    IN  IF idx = <<>> THEN NaN
        ELSE Sum(Tuple([j \in 1..Len(idx) |-> vals[idx[j]]]))

\* Series.cumsum(): running sum that skips NaN and leaves NaN in place
cumsum(col) ==
    [k \in 1..Len(col) |->
        IF IsNaN(col[k]) THEN NaN ELSE NanSum(col, k)]

compute_daily_cfl(h, e) ==
    LET ch    == Tuple(cfl_hour(e))
        dates == ResampleDates(h)
        dcfl  == Tuple([k \in 1..Len(dates) |-> BinSum(h, ch, dates[k])])
        ccfl  == Tuple(cumsum(dcfl))
    IN  [k \in 1..Len(dates) |->
            [date |-> dates[k], daily_CFL |-> dcfl[k], cumulative_CFL |-> ccfl[k]]]

\* is_poor: a comparison with NaN is False
is_poor(r) ==
    \/ (~IsNaN(r.rh) /\ r.rh < baseline_night_rh)
    \/ (~IsNaN(r.wind_speed_ms) /\ r.wind_speed_ms > baseline_night_wind)

in_night(hour) == hour >= NightStartHour \/ hour < NightEndHour

\* nrd_hour.where(in_night, 0)
nrd_hour(r) == IF in_night(HourOf(r.ts)) /\ is_poor(r) THEN 1 ELSE 0

\* variant: every hour keeps its own calendar date
night_date_unshifted(ts) == DateOf(ts)

\* normalize() minus one day for the early-morning hours
night_date(ts) ==
    DateOf(ts) - (IF HourOf(ts) < NightEndHour THEN 1 ELSE 0)

\* groupby(level="date").sum() for the group of night date d
GroupSum(h, vals, d) ==
    LET idx == SelectSeq(Tuple([i \in 1..Len(h) |-> i]),
                         LAMBDA i : night_date(h[i].ts) = d)
    IN  Sum(Tuple([j \in 1..Len(idx) |-> vals[idx[j]]]))

compute_daily_nrd(h) ==
    LET dates == SortedSeq({night_date(h[i].ts) : i \in 1..Len(h)})
        nh    == Tuple([i \in 1..Len(h) |-> nrd_hour(h[i])])
        dnrd  == Tuple([k \in 1..Len(dates) |-> GroupSum(h, nh, dates[k])])
        cnrd  == Tuple(cumsum(dnrd))
    IN  [k \in 1..Len(dates) |->
            [date |-> dates[k], daily_NRD |-> dnrd[k], cumulative_NRD |-> cnrd[k]]]

\* value of a column at a date of a frame, NaN where the frame has no such
\* date (the outer join of pd.concat(axis=1))
Lookup(frame, d, col) ==
    IF \E k \in 1..Len(frame) : frame[k].date = d
    THEN frame[CHOOSE k \in 1..Len(frame) : frame[k].date = d][col]
    ELSE NaN

fillna(x) == IF IsNaN(x) THEN 0 ELSE x

\* variant: the night-recovery frame joined onto the dates of the fire-load
\* frame only
AlignDailyLeft(c, n) ==
    Tuple([k \in 1..Len(c) |->
            [date           |-> c[k].date,
             daily_CFL      |-> fillna(c[k].daily_CFL),
             cumulative_CFL |-> fillna(c[k].cumulative_CFL),
             daily_NRD      |-> fillna(Lookup(n, c[k].date, "daily_NRD")),
             cumulative_NRD |-> fillna(Lookup(n, c[k].date, "cumulative_NRD"))]])

\* pd.concat([cfl, nrd], axis=1).sort_index().fillna(0.0)
AlignDaily(c, n) ==
    LET dates == SortedSeq({c[k].date : k \in 1..Len(c)}
                           \cup {n[k].date : k \in 1..Len(n)})
    IN  Tuple([k \in 1..Len(dates) |->
            [date           |-> dates[k],
             daily_CFL      |-> fillna(Lookup(c, dates[k], "daily_CFL")),
             cumulative_CFL |-> fillna(Lookup(c, dates[k], "cumulative_CFL")),
             daily_NRD      |-> fillna(Lookup(n, dates[k], "daily_NRD")),
             cumulative_NRD |-> fillna(Lookup(n, dates[k], "cumulative_NRD"))]])

----------------------------------------------------------------------------
(* metrics.py: compound strain, streaks, risk multiplier *)

\* the loop of _running_streak: run is the accumulator, streak the output
RECURSIVE StreakLoop(_, _, _, _)
StreakLoop(flag, i, run, streak) ==
    IF i > Len(flag) THEN streak
    ELSE LET r == IF flag[i] THEN run + 1 ELSE 0
         IN  StreakLoop(flag, i + 1, r, Append(streak, r))

\* variant: the run is not reset on a false value
RECURSIVE StreakLoopNoReset(_, _, _, _)
StreakLoopNoReset(flag, i, run, streak) ==
    IF i > Len(flag) THEN streak
    ELSE LET r == IF flag[i] THEN run + 1 ELSE run
         IN  StreakLoopNoReset(flag, i + 1, r, Append(streak, IF flag[i] THEN r ELSE 0))

running_streak_no_reset(flag) == StreakLoopNoReset(flag, 1, 0, <<>>)

running_streak(flag) == StreakLoop(flag, 1, 0, <<>>)

\* variants: the threshold itself counted as high; either flag enough
high_fire_day_inclusive(r) == r.daily_CFL >= HighFireThreshold
compound_either(r) ==
    r.daily_CFL > HighFireThreshold \/ r.daily_NRD > PoorNightThreshold

high_fire_day(r)       == r.daily_CFL > HighFireThreshold
poor_recovery_night(r) == r.daily_NRD > PoorNightThreshold
compound(r)            == high_fire_day(r) /\ poor_recovery_night(r)

compute_compound_strain(d) ==
    LET hf == Tuple([k \in 1..Len(d) |-> high_fire_day(d[k])])
        pr == Tuple([k \in 1..Len(d) |-> poor_recovery_night(d[k])])
        co == Tuple([k \in 1..Len(d) |-> compound(d[k])])
        shf == running_streak(hf)
        spr == running_streak(pr)
        sco == running_streak(co)
    IN  [k \in 1..Len(d) |->
            [high_fire_day                    |-> hf[k],
             poor_recovery_night              |-> pr[k],
             compound                         |-> co[k],
             consecutive_high_fire_days       |-> shf[k],
             consecutive_poor_recovery_nights |-> spr[k],
             consecutive_compound_cycles      |-> sco[k]]]

\* 1.0 + daily_CFL/60.0 + daily_NRD/4.0 + consecutive_compound_cycles*0.5,
\* in 600ths (daily_CFL is in tenths)
risk_multiplier(r) ==
    600 + r.daily_CFL + 150 * r.daily_NRD + 300 * r.consecutive_compound_cycles

\* lines 134-143: the strain columns and the multiplier joined to the frame
WithStrain(d) ==
    LET st == Tuple(compute_compound_strain(d))
    IN  [k \in 1..Len(d) |->
            LET row == st[k] @@ d[k]
            IN  [risk_multiplier |-> risk_multiplier(row)] @@ row]

----------------------------------------------------------------------------
(* risk_states.py *)

StableLimitCFL   == 600     \* 60.0
StableLimitNRD   == 4
StableLimitCS    == 2
FailureLimitCFL  == 1200    \* 120.0
FailureLimitNRD  == 8
FailureLimitCS   == 4

\* variants: Stable decided without the night deficit; Failure only above
\* the fire-load limit
stable_without_nrd(r) ==
    /\ r.daily_CFL < StableLimitCFL
    /\ r.consecutive_compound_cycles < StableLimitCS

failure_above(r) ==
    \/ r.daily_CFL > FailureLimitCFL
    \/ r.daily_NRD >= FailureLimitNRD
    \/ r.consecutive_compound_cycles >= FailureLimitCS

stable(r) ==
    /\ r.daily_CFL < StableLimitCFL
    /\ r.daily_NRD < StableLimitNRD
    /\ r.consecutive_compound_cycles < StableLimitCS

failure(r) ==
    \/ r.daily_CFL >= FailureLimitCFL
    \/ r.daily_NRD >= FailureLimitNRD
    \/ r.consecutive_compound_cycles >= FailureLimitCS

\* np.where(failure, "Failure", np.where(stable, "Stable", "Straining"))
assign_risk_states(d) ==
    [k \in 1..Len(d) |->
        IF failure(d[k]) THEN "Failure"
        ELSE IF stable(d[k]) THEN "Stable" ELSE "Straining"]

----------------------------------------------------------------------------
(* Inputs *)

\* temp_c, rh, wind_speed_ms of an hour
Hot   == [temp_c |-> 30, rh |-> 20, wind_speed_ms |-> 4]   \* EFW 28.0, poor
Calm  == [temp_c |-> 10, rh |-> 70, wind_speed_ms |-> 2]   \* EFW -3.0, not poor
Muggy == [temp_c |-> 45, rh |-> 60, wind_speed_ms |-> 5]   \* EFW 35.5, not poor
Windy == [temp_c |-> 10, rh |-> 60, wind_speed_ms |-> 6]   \* EFW  1.0, poor
Weather == {Hot, Calm, Muggy, Windy}

Row(t, w) ==
    [ts |-> t, temp_c |-> w.temp_c, rh |-> w.rh, wind_speed_ms |-> w.wind_speed_ms]

StartHours == {0, 7, 19, 23}   \* hour of day of the first row of the file
RunLens    == {1, 2, 13}       \* consecutive hourly rows of one weather
GapLens    == {0, 24}          \* hours missing from the file between runs

RunRows(t, n, w) == [k \in 1..n |-> Row(t + k - 1, w)]

LastTs(rows) == SetMax({rows[i].ts : i \in 1..Len(rows)})

----------------------------------------------------------------------------
(* main.run: write the file, load, compute, classify *)

Init ==
    /\ hourly = <<>>
    /\ runs = 0
    /\ efw = <<>>
    /\ cfl = <<>>
    /\ nrd = <<>>
    /\ base = <<>>
    /\ daily = <<>>
    /\ pc = "write"

\* the first rows of the file: n hours of weather w from hour s of day 1
WriteFirstRun(s, n, w) ==
    /\ pc = "write"
    /\ runs = 0
    /\ runs < MaxRuns
    /\ hourly' = RunRows(HoursPerDay + s, n, w)
    /\ runs' = 1
    /\ UNCHANGED <<efw, cfl, nrd, base, daily, pc>>

\* further rows, later in time, placed after the rows already in the file
\* or (the second run) before them
WriteNextRun(gap, n, w, front) ==
    /\ pc = "write"
    /\ runs > 0
    /\ runs < MaxRuns
    /\ front => runs = 1
    /\ LET new == RunRows(LastTs(hourly) + 1 + gap, n, w)
       IN  hourly' = IF front THEN new \o hourly ELSE hourly \o new
    /\ runs' = runs + 1
    /\ UNCHANGED <<efw, cfl, nrd, base, daily, pc>>

\* load_hourly_csv: bounds check, sort, asfreq
Load ==
    /\ pc = "write"
    /\ hourly # <<>>
    /\ BoundsOK(hourly)
    /\ hourly' = load_hourly_csv(hourly)
    /\ pc' = "loaded"
    /\ UNCHANGED <<runs, efw, cfl, nrd, base, daily>>

\* compute_all_daily_metrics, the whole call
ComputeAllDailyMetrics ==
    /\ pc = "loaded"
    /\ efw' = compute_hourly_efw(hourly)
    /\ cfl' = compute_daily_cfl(hourly, efw')
    /\ nrd' = compute_daily_nrd(hourly)
    /\ base' = AlignDaily(cfl', nrd')
    /\ daily' = WithStrain(base')
    /\ pc' = "metrics"
    /\ UNCHANGED <<hourly, runs>>

\* daily["risk_state"] = assign_risk_states(daily)
AssignRiskStates ==
    /\ pc = "metrics"
    /\ LET rs == assign_risk_states(daily)
       IN  daily' = [k \in 1..Len(daily) |-> [risk_state |-> rs[k]] @@ daily[k]]
    /\ pc' = "done"
    /\ UNCHANGED <<hourly, runs, efw, cfl, nrd, base>>

Next ==
    \/ \E s \in StartHours, n \in RunLens, w \in Weather : WriteFirstRun(s, n, w)
    \/ \E g \in GapLens, n \in RunLens, w \in Weather, f \in BOOLEAN :
           WriteNextRun(g, n, w, f)
    \/ Load
    \/ ComputeAllDailyMetrics
    \/ AssignRiskStates

Spec == Init /\ [][Next]_vars

----------------------------------------------------------------------------
(* The strain, multiplier and classification steps on an aligned daily frame *)
(* given row by row: every (daily_CFL, daily_NRD) below is a pair the        *)
(* aggregation produces for some hourly input.                               *)

\* daily_CFL (tenths) and daily_NRD of one date
DayRows == {<<0, 0>>, <<400, 4>>, <<401, 0>>, <<0, 5>>, <<401, 5>>, <<1200, 8>>}

InitDaily ==
    /\ hourly = <<>>
    /\ runs = 0
    /\ efw = <<>>
    /\ cfl = <<>>
    /\ nrd = <<>>
    /\ base = <<>>
    /\ daily = <<>>
    /\ pc = "aligned"

\* one more date of the aligned frame, the running sums carried on
AppendDay(c, n) ==
    /\ pc = "aligned"
    /\ Len(base) < MaxDays
    /\ LET last == IF base = <<>>
                   THEN [cumulative_CFL |-> 0, cumulative_NRD |-> 0]
                   ELSE base[Len(base)]
       IN  base' = Append(base,
                      [date           |-> Len(base) + 1,
                       daily_CFL      |-> c,
                       cumulative_CFL |-> last.cumulative_CFL + c,
                       daily_NRD      |-> n,
                       cumulative_NRD |-> last.cumulative_NRD + n])
    /\ UNCHANGED <<hourly, runs, efw, cfl, nrd, daily, pc>>

\* compute_all_daily_metrics from line 134 on: strain columns and multiplier
ComputeCompoundStrain ==
    /\ pc = "aligned"
    /\ base # <<>>
    /\ daily' = WithStrain(base)
    /\ pc' = "metrics"
    /\ UNCHANGED <<hourly, runs, efw, cfl, nrd, base>>

NextDaily ==
    \/ \E r \in DayRows : AppendDay(r[1], r[2])
    \/ ComputeCompoundStrain
    \/ AssignRiskStates

SpecDaily == InitDaily /\ [][NextDaily]_vars

----------------------------------------------------------------------------
(* assign_risk_states applied to a one-row frame of any daily_CFL,           *)
(* daily_NRD and consecutive_compound_cycles around its thresholds.          *)

GridCFL == {0, 599, 600, 1199, 1200, 1300}
GridNRD == {0, 3, 4, 7, 8}
GridCS  == {0, 1, 2, 3, 4}

InitClassify ==
    /\ hourly = <<>>
    /\ runs = 0
    /\ efw = <<>>
    /\ cfl = <<>>
    /\ nrd = <<>>
    /\ base = <<>>
    /\ \E c \in GridCFL, n \in GridNRD, s \in GridCS :
          daily = <<[date |-> 1, daily_CFL |-> c, daily_NRD |-> n,
                     consecutive_compound_cycles |-> s]>>
    /\ pc = "metrics"

NextClassify == AssignRiskStates

SpecClassify == InitClassify /\ [][NextClassify]_vars

----------------------------------------------------------------------------
(* compute_all_daily_metrics called on an hourly frame that did not pass     *)
(* through the loader: rows in any order, with repeated timestamps and gaps. *)

RawTs      == {31, 32, 47, 96}     \* day 1 07:00, 08:00, 23:00; day 4 00:00
RawWeather == {Hot, Calm}
RawRows    == {Row(t, w) : t \in RawTs, w \in RawWeather}

InitRaw ==
    /\ hourly \in UNION {[1..n -> RawRows] : n \in 1..MaxRaw}
    /\ runs = 0
    /\ efw = <<>>
    /\ cfl = <<>>
    /\ nrd = <<>>
    /\ base = <<>>
    /\ daily = <<>>
    /\ pc = "loaded"

NextRaw == ComputeAllDailyMetrics \/ AssignRiskStates

SpecRaw == InitRaw /\ [][NextRaw]_vars

----------------------------------------------------------------------------
Computed == pc \in {"metrics", "done"}

----------------------------------------------------------------------------
(* Vocabulary of the properties *)

Rows(frame) == 1..Len(frame)
Dates(frame) == {frame[k].date : k \in Rows(frame)}

\* an hour of the frame that carries a reading (not a NaN fill)
Present(r) == ~IsNaN(r.rh) /\ ~IsNaN(r.wind_speed_ms) /\ ~IsNaN(r.temp_c)

\* poor recovery as the documentation words it: rh < 60 or wind > 5
PoorHour(r) == Present(r) /\ (r.rh < 60 \/ r.wind_speed_ms > 5)

\* the hours of the frame that belong to the night of date d: 20:00-23:00 of
\* d and 00:00-07:00 of d + 1
NightHoursOf(d) ==
    {i \in Rows(hourly) :
        \/ (DateOf(hourly[i].ts) = d     /\ HourOf(hourly[i].ts) \in 20..23)
        \/ (DateOf(hourly[i].ts) = d + 1 /\ HourOf(hourly[i].ts) \in 0..7)}

\* prefix sum of a column of the daily frame up to row k
RECURSIVE Prefix(_, _, _)
Prefix(frame, col, k) ==
    IF k = 0 THEN 0 ELSE frame[k][col] + Prefix(frame, col, k - 1)

\* the hourly frame satisfies the input contract: ascending, unique,
\* uniformly hourly
ValidHourly(h) == \A i \in 1..(Len(h) - 1) : h[i + 1].ts = h[i].ts + 1

----------------------------------------------------------------------------
(* C3: in compute_daily_nrd an hour of 20..23 counts into its own date, an   *)
(* hour of 0..7 into the previous date, an hour of 8..19 counts nothing even *)
(* when poor; daily_NRD(d) is the number of poor hours present in the input  *)
(* among 20:00-23:00 of d and 00:00-07:00 of d+1.                            *)
C3_NightWindow ==
    Computed =>
        /\ \A k \in Rows(nrd) :
              nrd[k].daily_NRD =
                  Cardinality({i \in NightHoursOf(nrd[k].date) : PoorHour(hourly[i])})
        /\ \A k \in Rows(daily) :
              daily[k].daily_NRD =
                  Cardinality({i \in NightHoursOf(daily[k].date) : PoorHour(hourly[i])})
        /\ \A i \in Rows(hourly) :
              LET hr == HourOf(hourly[i].ts)
                  d  == DateOf(hourly[i].ts)
              IN  /\ hr \in 20..23 => d \in Dates(nrd)
                  /\ hr \in 0..7   => (d - 1) \in Dates(nrd)

\* a poor daytime hour that counted nothing, and an early-morning poor hour
\* counted into the previous date
C3_Witness ==
    /\ pc = "done"
    /\ \E i \in Rows(hourly) :
          /\ PoorHour(hourly[i]) /\ HourOf(hourly[i].ts) \in 8..19
          /\ Lookup(daily, DateOf(hourly[i].ts), "daily_NRD") = 0
    /\ \E i \in Rows(hourly) :
          /\ PoorHour(hourly[i]) /\ HourOf(hourly[i].ts) \in 0..7
          /\ Lookup(daily, DateOf(hourly[i].ts) - 1, "daily_NRD") > 0

----------------------------------------------------------------------------
(* C4: for a valid hourly input the daily table has exactly one record for   *)
(* every date of the fire-load or of the night-recovery aggregation (the day *)
(* before the first input date included when that day has hours 00-07), in   *)
(* ascending order, without duplicate and without a missing date in between; *)
(* a date absent from one aggregation has that metric 0.                     *)
C4_DateComplete ==
    (Computed /\ ValidHourly(hourly)) =>
        /\ Dates(daily) = Dates(cfl) \cup Dates(nrd)
        /\ Len(daily) = Cardinality(Dates(cfl) \cup Dates(nrd))
        /\ \A k \in 1..(Len(daily) - 1) : daily[k + 1].date = daily[k].date + 1
        /\ \A k \in Rows(daily) :
              /\ daily[k].date \notin Dates(cfl) => daily[k].daily_CFL = 0
              /\ daily[k].date \notin Dates(nrd) => daily[k].daily_NRD = 0
        /\ daily[1].date =
              DateOf(hourly[1].ts) - (IF HourOf(hourly[1].ts) < 8 THEN 1 ELSE 0)
        /\ daily[Len(daily)].date = DateOf(hourly[Len(hourly)].ts)

\* a table with a leading date only the night aggregation has and a date
\* only the fire-load aggregation has
C4_Witness ==
    /\ pc = "done"
    /\ ValidHourly(hourly)
    /\ \E k \in Rows(daily) : daily[k].date \notin Dates(cfl)
    /\ \E k \in Rows(daily) : daily[k].date \notin Dates(nrd)
    /\ Len(daily) >= 3

----------------------------------------------------------------------------
(* C5: for a valid hourly input cumulative_NRD of the final table is the     *)
(* running sum of daily_NRD over the output dates and never decreases.       *)
C5_CumulativeNRD ==
    (Computed /\ ValidHourly(hourly)) =>
        /\ \A k \in Rows(daily) :
              daily[k].cumulative_NRD = Prefix(daily, "daily_NRD", k)
        /\ \A k \in 1..(Len(daily) - 1) :
              daily[k + 1].cumulative_NRD >= daily[k].cumulative_NRD

----------------------------------------------------------------------------
(* C6: for a valid hourly input daily_CFL >= 0 on every date, cumulative_CFL *)
(* is the prefix sum of daily_CFL over the output dates and never decreases. *)
C6_CumulativeCFL ==
    (Computed /\ ValidHourly(hourly)) =>
        /\ \A k \in Rows(daily) : daily[k].daily_CFL >= 0
        /\ \A k \in Rows(daily) :
              daily[k].cumulative_CFL = Prefix(daily, "daily_CFL", k)
        /\ \A k \in 1..(Len(daily) - 1) :
              daily[k + 1].cumulative_CFL >= daily[k].cumulative_CFL

----------------------------------------------------------------------------
\* one streak column follows its boolean column by the step rule
StreakStep(flagcol, streakcol) ==
    \A k \in Rows(daily) :
        LET before == IF k = 1 THEN 0 ELSE daily[k - 1][streakcol]
        IN  daily[k][streakcol] = IF daily[k][flagcol] THEN before + 1 ELSE 0

(* C1: for each of the three boolean series the streak counter at a date is  *)
(* the counter at the preceding date plus 1 when the boolean is true there,  *)
(* and 0 when it is false; the streak before the first date is 0.            *)
C1_StreakRecurrence ==
    Computed =>
        /\ StreakStep("high_fire_day", "consecutive_high_fire_days")
        /\ StreakStep("poor_recovery_night", "consecutive_poor_recovery_nights")
        /\ StreakStep("compound", "consecutive_compound_cycles")

\* high_fire_day [T,T,F,T] over four dates with streaks [1,2,0,1]
C1_Witness ==
    /\ pc = "done"
    /\ Len(daily) = 4
    /\ <<daily[1].high_fire_day, daily[2].high_fire_day,
         daily[3].high_fire_day, daily[4].high_fire_day>> = <<TRUE, TRUE, FALSE, TRUE>>
    /\ <<daily[1].consecutive_high_fire_days, daily[2].consecutive_high_fire_days,
         daily[3].consecutive_high_fire_days, daily[4].consecutive_high_fire_days>>
           = <<1, 2, 0, 1>>

----------------------------------------------------------------------------
\* the two conditions with the thresholds as the claim gives them
ClaimedFailure(r) ==
    r.daily_CFL >= 1200 \/ r.daily_NRD >= 8 \/ r.consecutive_compound_cycles >= 4

ClaimedStable(r) ==
    r.daily_CFL < 600 /\ r.daily_NRD < 4 /\ r.consecutive_compound_cycles < 2

(* C2: assign_risk_states gives every day exactly one of Failure, Stable,    *)
(* Straining from (daily_CFL, daily_NRD, consecutive_compound_cycles) alone: *)
(* Failure if CFL >= 120 or NRD >= 8 or streak >= 4; else Stable if CFL < 60 *)
(* and NRD < 4 and streak < 2; else Straining.  The Failure and the Stable   *)
(* condition are never both true.                                            *)
C2_Classifier ==
    pc = "done" =>
        \A k \in Rows(daily) :
            /\ daily[k].risk_state \in {"Failure", "Stable", "Straining"}
            /\ daily[k].risk_state = "Failure" <=> ClaimedFailure(daily[k])
            /\ daily[k].risk_state = "Stable" <=>
                  (~ClaimedFailure(daily[k]) /\ ClaimedStable(daily[k]))
            /\ daily[k].risk_state = "Straining" <=>
                  (~ClaimedFailure(daily[k]) /\ ~ClaimedStable(daily[k]))
            /\ ~(ClaimedFailure(daily[k]) /\ ClaimedStable(daily[k]))

\* CFL = 60.0, NRD = 0, streak = 0 classified Straining
C2_Witness ==
    /\ pc = "done"
    /\ daily[1].daily_CFL = 600
    /\ daily[1].daily_NRD = 0
    /\ daily[1].consecutive_compound_cycles = 0
    /\ daily[1].risk_state = "Straining"

----------------------------------------------------------------------------
(* C7 as stated: hourly records that violate the input contract make the     *)
(* call fail; no daily series is returned.                                   *)
C7_FailsFast == ~ValidHourly(hourly) => daily = <<>>

(* C7 as the code has it: the core validates nothing and raises nothing.  On *)
(* records out of order, repeated or gapped it returns a full daily series:  *)
(* one record per date from the earliest date (the day before, when that     *)
(* date has hours 00-07) to the latest, the series of the same records       *)
(* sorted by timestamp, every record counted as often as it occurs.          *)
C7_NoValidation ==
    (Computed /\ ~ValidHourly(hourly)) =>
        LET sorted == sort_values(hourly)
            n      == Len(sorted)
        IN  /\ Len(daily) >= 1
            /\ daily[1].date =
                  DateOf(sorted[1].ts) - (IF HourOf(sorted[1].ts) < 8 THEN 1 ELSE 0)
            /\ daily[Len(daily)].date = DateOf(sorted[n].ts)
            /\ \A k \in 1..(Len(daily) - 1) : daily[k + 1].date = daily[k].date + 1
            /\ base = AlignDaily(compute_daily_cfl(sorted, compute_hourly_efw(sorted)),
                                 compute_daily_nrd(sorted))
            /\ Prefix(daily, "daily_NRD", Len(daily)) =
                  Cardinality({i \in Rows(hourly) :
                      PoorHour(hourly[i]) /\ HourOf(hourly[i].ts) \notin 8..19})
            /\ Prefix(daily, "daily_CFL", Len(daily)) =
                  Sum(Tuple([i \in Rows(hourly) |->
                          Max2(10 * hourly[i].temp_c + 5 * hourly[i].wind_speed_ms
                                 - 2 * hourly[i].rh - 200, 0)]))

\* a series returned for records that are out of order, repeat a timestamp
\* and leave a gap
C7_Witness ==
    /\ pc = "done"
    /\ Len(daily) >= 4
    /\ \E i \in 1..(Len(hourly) - 1) : hourly[i + 1].ts < hourly[i].ts
    /\ \E i, j \in Rows(hourly) : i # j /\ hourly[i].ts = hourly[j].ts
    /\ Prefix(daily, "daily_CFL", Len(daily)) > 0

----------------------------------------------------------------------------
(* C8: on every output date high_fire_day is true exactly when daily_CFL >   *)
(* 40, poor_recovery_night exactly when daily_NRD > 4, and compound exactly  *)
(* when both are true.                                                       *)
C8_Flags ==
    Computed =>
        \A k \in Rows(daily) :
            /\ daily[k].high_fire_day <=> daily[k].daily_CFL > 400
            /\ daily[k].poor_recovery_night <=> daily[k].daily_NRD > 4
            /\ daily[k].compound <=>
                  (daily[k].high_fire_day /\ daily[k].poor_recovery_night)

\* the four combinations of the two flags in one table, the thresholds met
\* exactly on one date
C8_Witness ==
    /\ pc = "done"
    /\ \A hf, pr \in BOOLEAN :
          \E k \in Rows(daily) :
              /\ daily[k].high_fire_day = hf
              /\ daily[k].poor_recovery_night = pr
              /\ daily[k].compound = (hf /\ pr)
    /\ \E k \in Rows(daily) : daily[k].daily_CFL = 400 /\ daily[k].daily_NRD = 4

----------------------------------------------------------------------------
\* a streak column within its bounds and positive exactly on true dates
StreakBounded(flagcol, streakcol) ==
    \A k \in Rows(daily) :
        /\ daily[k][streakcol] >= 0
        /\ daily[k][streakcol] <= k
        /\ daily[k][streakcol] > 0 <=> daily[k][flagcol]

(* C9: on every output date the compound streak is at most the high-fire     *)
(* streak and at most the poor-night streak; each streak counter is at most  *)
(* the number of output dates so far and positive exactly when its boolean   *)
(* is true on that date.                                                     *)
C9_StreakBounds ==
    Computed =>
        /\ \A k \in Rows(daily) :
              /\ daily[k].consecutive_compound_cycles
                    <= daily[k].consecutive_high_fire_days
              /\ daily[k].consecutive_compound_cycles
                    <= daily[k].consecutive_poor_recovery_nights
        /\ StreakBounded("high_fire_day", "consecutive_high_fire_days")
        /\ StreakBounded("poor_recovery_night", "consecutive_poor_recovery_nights")
        /\ StreakBounded("compound", "consecutive_compound_cycles")

\* a compound streak of 2 inside a longer high-fire streak and a longer
\* poor-night streak elsewhere
C9_Witness ==
    /\ pc = "done"
    /\ \E k \in Rows(daily) :
          /\ daily[k].consecutive_compound_cycles = 2
          /\ daily[k].consecutive_high_fire_days > 2
    /\ \E k \in Rows(daily) :
          /\ daily[k].consecutive_compound_cycles = 1
          /\ daily[k].consecutive_poor_recovery_nights > 1

----------------------------------------------------------------------------
(* C10: in the full pipeline a date with consecutive_compound_cycles >= 1 is *)
(* never classified Stable; a date classified Failure through the streak     *)
(* disjunct is preceded by at least three consecutive dates each classified  *)
(* Straining or Failure.                                                     *)
C10_CompoundNeverStable ==
    pc = "done" =>
        \A k \in Rows(daily) :
            /\ daily[k].consecutive_compound_cycles >= 1
                  => daily[k].risk_state # "Stable"
            /\ (daily[k].risk_state = "Failure"
                    /\ daily[k].consecutive_compound_cycles >= 4)
                  => /\ k >= 4
                     /\ \A j \in (k - 3)..(k - 1) :
                           daily[j].risk_state \in {"Straining", "Failure"}

\* a date that is Failure by its streak alone, after three Straining dates
C10_Witness ==
    /\ pc = "done"
    /\ \E k \in Rows(daily) :
          /\ daily[k].consecutive_compound_cycles >= 4
          /\ daily[k].daily_CFL < 1200
          /\ daily[k].daily_NRD < 8
          /\ daily[k].risk_state = "Failure"
          /\ \A j \in (k - 3)..(k - 1) : daily[j].risk_state = "Straining"

=============================================================================
